---------------------------- MODULE Spec2Model ----------------------------
(***************************************************************************)
(* Model of src/main.cpp: a telephone-call finite-state machine.  The main *)
(* thread runs FSM::run (the consumer loop), a second thread runs          *)
(* thread_main (the producer) and the two meet at a condition variable.    *)
(***************************************************************************)
EXTENDS Naturals, Sequences, FiniteSets, TLC

(* ----------------------------- bounds --------------------------------- *)

\* Length at which the history variables stop recording.
MaxHist == 7

\* Number of events of a run for which the open event source of SpecAny may
\* deliver a value other than get_event's.
MaxDeliver == 3

(* ------------------------ enumerations (10-21) ------------------------ *)

INCOMING_CALL == "INCOMING_CALL"
CALL_DECLINED == "CALL_DECLINED"
CALL_ANSWERED == "CALL_ANSWERED"
CALL_ENDED == "CALL_ENDED"

Event == {INCOMING_CALL, CALL_DECLINED, CALL_ANSWERED, CALL_ENDED}

IDLE == "IDLE"
PHONE_RING == "PHONE_RING"
IN_CALL == "IN_CALL"

StateDescriptor == {IDLE, PHONE_RING, IN_CALL}

(* --------------------------- State objects ---------------------------- *)

\* A null pointer: an empty shared_ptr<State> or a null OpHandler.
nullptr == "nullptr"

\* The State object FSM::FSM allocates for itself (new Idle()).
fsm_idle == "fsm_idle"
\* The three State objects TransitionManager owns.
idle_state == "idle_state"
phone_ringing_state == "phone_ringing_state"
in_call_state == "in_call_state"

StateObjects == {fsm_idle, idle_state, phone_ringing_state, in_call_state}

\* State::get_descriptor of each concrete class.
get_descriptor(o) ==
    CASE o = fsm_idle -> IDLE
      [] o = idle_state -> IDLE
      [] o = phone_ringing_state -> PHONE_RING
      [] o = in_call_state -> IN_CALL

\* Variant of IdleCtor: the handler registered under CALL_ANSWERED.
IdleCtor_WrongEvent == (CALL_ANSWERED :> "incoming_call_handler")

\* The handler_map each constructor builds.
IdleCtor == (INCOMING_CALL :> "incoming_call_handler")

\* Variant of PhoneRingingCtor: the two handlers registered under each
\* other's event.
PhoneRingingCtor_Swapped ==
    (CALL_ANSWERED :> "call_declined_handler") @@
    (CALL_DECLINED :> "call_answered_handler")

PhoneRingingCtor ==
    (CALL_ANSWERED :> "call_answered_handler") @@
    (CALL_DECLINED :> "call_declined_handler")

InCallCtor == (CALL_ENDED :> "call_ended_handler")

\* The line each handler writes to std::cout.
HandlerOutput(h) ==
    CASE h = "incoming_call_handler" -> "Phone started ringing"
      [] h = "call_answered_handler" -> "Call answered. Starting conversation"
      [] h = "call_declined_handler" -> "Call declined"
      [] h = "call_ended_handler" -> "Call ended"

(* ------------------------- TransitionManager -------------------------- *)

\* Variant of TransitionManagerCtor: the entry of (PHONE_RING, CALL_DECLINED)
\* written to the cell of (PHONE_RING, CALL_ENDED).
TransitionManagerCtor_WrongCell ==
    [sd \in StateDescriptor |->
        [ev \in Event |->
            CASE sd = IDLE /\ ev = INCOMING_CALL -> phone_ringing_state
              [] sd = PHONE_RING /\ ev = CALL_ANSWERED -> in_call_state
              [] sd = PHONE_RING /\ ev = CALL_ENDED -> idle_state
              [] sd = IN_CALL /\ ev = CALL_ENDED -> idle_state
              [] OTHER -> nullptr]]

\* Variant of TransitionManagerCtor: (IN_CALL, CALL_ENDED) leads to
\* phone_ringing_state.
TransitionManagerCtor_EndToRinging ==
    [sd \in StateDescriptor |->
        [ev \in Event |->
            CASE sd = IDLE /\ ev = INCOMING_CALL -> phone_ringing_state
              [] sd = PHONE_RING /\ ev = CALL_ANSWERED -> in_call_state
              [] sd = PHONE_RING /\ ev = CALL_DECLINED -> idle_state
              [] sd = IN_CALL /\ ev = CALL_ENDED -> phone_ringing_state
              [] OTHER -> nullptr]]

\* TransitionManager::TransitionManager: the 3 x 4 array of shared_ptr<State>.
TransitionManagerCtor ==
    [sd \in StateDescriptor |->
        [ev \in Event |->
            CASE sd = IDLE /\ ev = INCOMING_CALL -> phone_ringing_state
              [] sd = PHONE_RING /\ ev = CALL_ANSWERED -> in_call_state
              [] sd = PHONE_RING /\ ev = CALL_DECLINED -> idle_state
              [] sd = IN_CALL /\ ev = CALL_ENDED -> idle_state
              [] OTHER -> nullptr]]

(* ------------------------------ get_event ----------------------------- *)

\* Variant of get_event_value: case 1 returns CALL_DECLINED.
get_event_value_Declined(c) ==
    CASE c = 0 -> INCOMING_CALL
      [] c = 1 -> CALL_DECLINED
      [] c = 2 -> CALL_ENDED
      [] OTHER -> "throw"

\* Variant of get_event_value: every call is declined and the phone rings
\* again: case 1 returns CALL_DECLINED, case 2 INCOMING_CALL.
get_event_value_DeclineAll(c) ==
    CASE c = 0 -> INCOMING_CALL
      [] c = 1 -> CALL_DECLINED
      [] c = 2 -> INCOMING_CALL
      [] OTHER -> "throw"

\* The value get_event returns when its static counter is c; "throw" is the
\* std::runtime_error after the switch.
get_event_value(c) ==
    CASE c = 0 -> INCOMING_CALL
      [] c = 1 -> CALL_ANSWERED
      [] c = 2 -> CALL_ENDED
      [] OTHER -> "throw"

\* Variant of get_event_call: case 2 increments instead of resetting.
get_event_call_NoReset(c) ==
    CASE c = 0 -> c + 1
      [] c = 1 -> c + 1
      [] c = 2 -> c + 1
      [] OTHER -> c

\* Variant of get_event_call: case 1 advances the counter by two.
get_event_call_SkipTwo(c) ==
    CASE c = 0 -> c + 1
      [] c = 1 -> c + 2
      [] c = 2 -> 0
      [] OTHER -> c

\* The value get_event leaves in its static counter.
get_event_call(c) ==
    CASE c = 0 -> c + 1
      [] c = 1 -> c + 1
      [] c = 2 -> 0
      [] OTHER -> c

(* ------------------------------- state -------------------------------- *)

VARIABLES
    current_state,  \* FSM::current_state: a State object or nullptr
    mapping,        \* TransitionManager::mapping
    handler_map,    \* handler_map of each State object
    call,           \* the static counter of get_event
    e,              \* the local e of FSM::run ("none" before the first event)
    pc_c,           \* position of the consumer (main thread, FSM::run)
    pc_p,           \* position of the producer (thread_main)
    mutex,          \* owner of the mutex m: "free" or "fsm"
    status,         \* "running", or "crashed" once the process has died
    output,         \* history: the lines written to std::cout
    retrieved,      \* history: the events get_event returned
    visited,        \* history: the descriptors of the states installed
    notifications   \* history: the number of notify_one calls

vars == <<current_state, mapping, handler_map, call, e, pc_c, pc_p, mutex,
          status, output, retrieved, visited, notifications>>

\* A history sequence records until it holds MaxHist entries.
Record(h, x) == IF Len(h) < MaxHist THEN Append(h, x) ELSE h

\* A history counter counts up to MaxHist.
Count(n) == IF n < MaxHist THEN n + 1 ELSE n

\* What an operation with undefined behaviour may do: kill the process or
\* return as if nothing had happened.
UBOutcomes == {"crash", "return"}

\* main, up to the call of fsm.run: FSM fsm; TransitionManager manager;
\* the condition variable, the mutex and the started thread.
Init ==
    /\ current_state = fsm_idle
    /\ mapping = TransitionManagerCtor
    /\ handler_map = [o \in StateObjects |->
                        CASE o = fsm_idle -> IdleCtor
                          [] o = idle_state -> IdleCtor
                          [] o = phone_ringing_state -> PhoneRingingCtor
                          [] o = in_call_state -> InCallCtor]
    /\ call = 0
    /\ e = "none"
    /\ pc_c = "lock"
    /\ pc_p = <<0, "sleep">>
    /\ mutex = "free"
    /\ status = "running"
    /\ output = <<>>
    /\ retrieved = <<>>
    /\ visited = <<IDLE>>
    /\ notifications = 0

\* Variant of get_next_state: the row of IN_CALL is never read.
get_next_state_NoLastRow(sd, ev) ==
    IF sd = IN_CALL THEN nullptr ELSE mapping[sd][ev]

\* TransitionManager::get_next_state.
get_next_state(sd, ev) == mapping[sd][ev]

(* ------------------------- producer: thread_main ---------------------- *)

\* One of the three sleep_for calls.
Sleep ==
    /\ status = "running"
    /\ pc_p[2] = "sleep"
    /\ pc_p' = <<pc_p[1], "notify">>
    /\ UNCHANGED <<current_state, mapping, handler_map, call, e, pc_c, mutex,
                   status, output, retrieved, visited, notifications>>

\* Variant of Notify: notify_one wakes nobody.
Notify_WakesNobody ==
    /\ status = "running"
    /\ pc_p[2] = "notify"
    /\ pc_p' = <<(pc_p[1] + 1) % 3, "sleep">>
    /\ notifications' = Count(notifications)
    /\ UNCHANGED <<current_state, mapping, handler_map, call, e, pc_c, mutex,
                   status, output, retrieved, visited>>

\* Variant of Notify: the producer notifies only while the mutex is free, as
\* if it locked m around notify_one.
Notify_UnderMutex ==
    /\ status = "running"
    /\ pc_p[2] = "notify"
    /\ mutex = "free"
    /\ pc_p' = <<(pc_p[1] + 1) % 3, "sleep">>
    /\ pc_c' = IF pc_c = "blocked" THEN "woken" ELSE pc_c
    /\ notifications' = Count(notifications)
    /\ UNCHANGED <<current_state, mapping, handler_map, call, e, mutex,
                   status, output, retrieved, visited>>

\* One of the three event_ready.notify_one() calls: wakes the consumer if it
\* is blocked in wait and is lost otherwise; after the third, goto loop.
Notify ==
    /\ status = "running"
    /\ pc_p[2] = "notify"
    /\ pc_p' = <<(pc_p[1] + 1) % 3, "sleep">>
    /\ pc_c' = IF pc_c = "blocked" THEN "woken" ELSE pc_c
    /\ notifications' = Count(notifications)
    /\ UNCHANGED <<current_state, mapping, handler_map, call, e, mutex,
                   status, output, retrieved, visited>>

(* -------------------------- consumer: FSM::run ------------------------ *)

\* std::unique_lock<std::mutex> lock(m);
Lock ==
    /\ status = "running"
    /\ pc_c = "lock"
    /\ mutex = "free"
    /\ mutex' = "fsm"
    /\ pc_c' = "wait"
    /\ UNCHANGED <<current_state, mapping, handler_map, call, e, pc_p,
                   status, output, retrieved, visited, notifications>>

\* event_ready.wait(lock), entry: releases the mutex and blocks.
Wait ==
    /\ status = "running"
    /\ pc_c = "wait"
    /\ mutex' = "free"
    /\ pc_c' = "blocked"
    /\ UNCHANGED <<current_state, mapping, handler_map, call, e, pc_p,
                   status, output, retrieved, visited, notifications>>

\* event_ready.wait(lock) has no predicate: the wait may end without any
\* notify_one (a spurious wakeup).
SpuriousWakeup ==
    /\ status = "running"
    /\ pc_c = "blocked"
    /\ pc_c' = "woken"
    /\ UNCHANGED <<current_state, mapping, handler_map, call, e, pc_p, mutex,
                   status, output, retrieved, visited, notifications>>

\* Variant of Reacquire: wait returns without taking the mutex again.
Reacquire_NoLock ==
    /\ status = "running"
    /\ pc_c = "woken"
    /\ pc_c' = "get_event"
    /\ UNCHANGED <<current_state, mapping, handler_map, call, e, pc_p, mutex,
                   status, output, retrieved, visited, notifications>>

\* event_ready.wait(lock), exit: takes the mutex again and returns.
Reacquire ==
    /\ status = "running"
    /\ pc_c = "woken"
    /\ mutex = "free"
    /\ mutex' = "fsm"
    /\ pc_c' = "get_event"
    /\ UNCHANGED <<current_state, mapping, handler_map, call, e, pc_p,
                   status, output, retrieved, visited, notifications>>

\* const Event e = get_event();  An exception leaves run and main, and the
\* process is terminated.
GetEvent ==
    /\ status = "running"
    /\ pc_c = "get_event"
    /\ IF get_event_value(call) = "throw"
       THEN /\ status' = "crashed"
            /\ UNCHANGED <<call, e, pc_c, retrieved>>
       ELSE /\ e' = get_event_value(call)
            /\ call' = get_event_call(call)
            /\ retrieved' = Record(retrieved, get_event_value(call))
            /\ pc_c' = "do_op"
            /\ UNCHANGED status
    /\ UNCHANGED <<current_state, mapping, handler_map, pc_p, mutex,
                   output, visited, notifications>>

\* The values line 207 may store in e when the event source is open: the
\* value get_event returns and, for the first MaxDeliver events of a run,
\* any other value of enum Event.
DeliverableEvents ==
    IF Len(retrieved) < MaxDeliver
    THEN Event
    ELSE {get_event_value(call)}

\* const Event e = get_event(); with an open event source.  The step is
\* GetEvent (the counter advances, an out-of-range counter throws and ends
\* the process) except that e may also be another value of enum Event.
DeliverAnyEvent ==
    /\ status = "running"
    /\ pc_c = "get_event"
    /\ IF get_event_value(call) = "throw"
       THEN /\ status' = "crashed"
            /\ UNCHANGED <<call, e, pc_c, retrieved>>
       ELSE /\ \E ev \in DeliverableEvents :
                /\ e' = ev
                /\ retrieved' = Record(retrieved, ev)
            /\ call' = get_event_call(call)
            /\ pc_c' = "do_op"
            /\ UNCHANGED status
    /\ UNCHANGED <<current_state, mapping, handler_map, pc_p, mutex,
                   output, visited, notifications>>

\* Whether handler_map[ev] of object o holds a handler that can be called.
HasHandler(o, ev) ==
    /\ ev \in DOMAIN handler_map[o]
    /\ handler_map[o][ev] # nullptr

\* std::map::operator[]: the map after handler_map[ev], which inserts a null
\* OpHandler when ev has no entry.
MapSubscript(m, ev) ==
    [x \in DOMAIN m \cup {ev} |-> IF x \in DOMAIN m THEN m[x] ELSE nullptr]

\* current_state->do_op(e), that is handler_map[e]() of the current state.
\* Calling a null OpHandler, or calling through a null current_state, is
\* undefined behaviour.
DoOp ==
    /\ status = "running"
    /\ pc_c = "do_op"
    /\ IF current_state = nullptr
       THEN /\ \E outcome \in UBOutcomes :
                /\ status' = IF outcome = "crash" THEN "crashed" ELSE status
                /\ pc_c' = IF outcome = "crash" THEN pc_c ELSE "transition"
            /\ UNCHANGED <<handler_map, output>>
       ELSE /\ handler_map' =
                [handler_map EXCEPT
                    ![current_state] = MapSubscript(@, e)]
            /\ IF HasHandler(current_state, e)
               THEN /\ output' =
                        Record(output,
                               HandlerOutput(handler_map[current_state][e]))
                    /\ pc_c' = "transition"
                    /\ UNCHANGED status
               ELSE /\ \E outcome \in UBOutcomes :
                        /\ status' =
                              IF outcome = "crash" THEN "crashed" ELSE status
                        /\ pc_c' =
                              IF outcome = "crash" THEN pc_c ELSE "transition"
                    /\ UNCHANGED output
    /\ UNCHANGED <<current_state, mapping, call, e, pc_p, mutex,
                   retrieved, visited, notifications>>

\* The descriptor recorded for a value of current_state.
DescriptorOf(o) == IF o = nullptr THEN nullptr ELSE get_descriptor(o)

\* Variant of Transition: the table is queried with a freshly retrieved event
\* instead of the event that was dispatched.
Transition_FreshEvent ==
    /\ status = "running"
    /\ pc_c = "transition"
    /\ IF current_state = nullptr \/ get_event_value(call) = "throw"
       THEN /\ status' = "crashed"
            /\ UNCHANGED <<current_state, visited, pc_c, call>>
       ELSE /\ current_state' =
                  get_next_state(get_descriptor(current_state),
                                 get_event_value(call))
            /\ call' = get_event_call(call)
            /\ visited' = Record(visited, DescriptorOf(current_state'))
            /\ pc_c' = "goto"
            /\ UNCHANGED status
    /\ UNCHANGED <<mapping, handler_map, e, pc_p, mutex,
                   output, retrieved, notifications>>

\* current_state = transition_manager.get_next_state(
\*                     current_state->get_descriptor(), e);
\* Through a null current_state the call is undefined behaviour: the process
\* dies or some row of the table is read.
Transition ==
    /\ status = "running"
    /\ pc_c = "transition"
    /\ IF current_state = nullptr
       THEN \E outcome \in UBOutcomes :
                IF outcome = "crash"
                THEN /\ status' = "crashed"
                     /\ UNCHANGED <<current_state, visited, pc_c>>
                ELSE \E sd \in StateDescriptor :
                        /\ current_state' = get_next_state(sd, e)
                        /\ visited' =
                              Record(visited, DescriptorOf(current_state'))
                        /\ pc_c' = "goto"
                        /\ UNCHANGED status
       ELSE /\ current_state' =
                  get_next_state(get_descriptor(current_state), e)
            /\ visited' = Record(visited, DescriptorOf(current_state'))
            /\ pc_c' = "goto"
            /\ UNCHANGED status
    /\ UNCHANGED <<mapping, handler_map, call, e, pc_p, mutex,
                   output, retrieved, notifications>>

\* goto loop: the jump leaves the scope of lock, whose destructor releases
\* the mutex.
Goto ==
    /\ status = "running"
    /\ pc_c = "goto"
    /\ mutex' = "free"
    /\ pc_c' = "lock"
    /\ UNCHANGED <<current_state, mapping, handler_map, call, e, pc_p,
                   status, output, retrieved, visited, notifications>>

(* --------------------------- specifications --------------------------- *)

\* The program as it runs: events come from get_event.
Next ==
    \/ Sleep
    \/ Notify
    \/ Lock
    \/ Wait
    \/ SpuriousWakeup
    \/ Reacquire
    \/ GetEvent
    \/ DoOp
    \/ Transition
    \/ Goto

Spec == Init /\ [][Next]_vars

\* The program with an open event source: every step of Next, and line 207
\* may also store a value of enum Event that get_event would not return.
NextAny ==
    \/ Sleep
    \/ Notify
    \/ Lock
    \/ Wait
    \/ SpuriousWakeup
    \/ Reacquire
    \/ DeliverAnyEvent
    \/ DoOp
    \/ Transition
    \/ Goto

SpecAny == Init /\ [][NextAny]_vars

\* The steps of thread_main.
Producer == Sleep \/ Notify

\* The steps of FSM::run that the main thread takes by itself; a spurious
\* wakeup is not one of them.
Consumer ==
    Lock \/ Wait \/ Reacquire \/ GetEvent \/ DoOp \/ Transition \/ Goto

\* The running program under a scheduler that lets each thread whose next
\* step is possible take it eventually.
SpecFair == Spec /\ WF_vars(Producer) /\ WF_vars(Consumer)

(* ------------------------------ claims -------------------------------- *)

\* The four entries of the authoritative transition table.
TableEntries ==
    {<<IDLE, INCOMING_CALL>>, <<PHONE_RING, CALL_ANSWERED>>,
     <<PHONE_RING, CALL_DECLINED>>, <<IN_CALL, CALL_ENDED>>}

\* The next state the authoritative table gives, nullptr for no transition.
TableNext(sd, ev) ==
    IF <<sd, ev>> = <<IDLE, INCOMING_CALL>> THEN PHONE_RING
    ELSE IF <<sd, ev>> = <<PHONE_RING, CALL_ANSWERED>> THEN IN_CALL
    ELSE IF <<sd, ev>> = <<PHONE_RING, CALL_DECLINED>> THEN IDLE
    ELSE IF <<sd, ev>> = <<IN_CALL, CALL_ENDED>> THEN IDLE
    ELSE nullptr

\* The accepted sequence, the states it visits and the lines it prints.
Cycle3 == <<INCOMING_CALL, CALL_ANSWERED, CALL_ENDED>>
CycleStates == <<IDLE, PHONE_RING, IN_CALL, IDLE>>
CycleOutput ==
    <<"Phone started ringing", "Call answered. Starting conversation",
      "Call ended">>

\* The number of retrieved events whose processing (do_op, then the
\* installation of the next state) is complete.
Processed ==
    IF pc_c \in {"do_op", "transition"}
    THEN Len(retrieved) - 1
    ELSE Len(retrieved)

\* C1: the table lookup is defined for all 12 (state, event) pairs and
\* equals the authoritative table: the four listed entries lead to Ringing,
\* InCall, Idle and Idle, each of the other 8 pairs is 'no transition'.
C1_TableIsAuthoritative ==
    /\ DOMAIN mapping = {IDLE, PHONE_RING, IN_CALL}
    /\ \A sd \in DOMAIN mapping :
        /\ DOMAIN mapping[sd] =
              {INCOMING_CALL, CALL_DECLINED, CALL_ANSWERED, CALL_ENDED}
        /\ \A ev \in DOMAIN mapping[sd] :
              DescriptorOf(get_next_state(sd, ev)) = TableNext(sd, ev)
    /\ Cardinality({p \in StateDescriptor \X Event :
                      get_next_state(p[1], p[2]) = nullptr}) = 8

\* C1 witness: the engine has looked a pair up and installed the result.
C1_Witness ==
    /\ pc_c = "goto"
    /\ Len(visited) >= 2
    /\ current_state = get_next_state(PHONE_RING, CALL_ANSWERED)

\* C2: processing an event E in a state S whose pair (S, E) is not in the
\* table keeps the process running, leaves the current state equal to S and
\* reports an error (the dispatch step writes something): never a silent
\* no-op, never a change of state.
C2_RejectedEventKeepsState ==
    [][(/\ pc_c \in {"do_op", "transition"}
        /\ current_state # nullptr
        /\ <<get_descriptor(current_state), e>> \notin TableEntries)
       => (/\ status' = "running"
           /\ DescriptorOf(current_state') = get_descriptor(current_state)
           /\ (pc_c = "do_op" /\ pc_c' = "transition" => output' # output))
      ]_vars

\* C3: from Idle, the sequence IncomingCall, CallAnswered, CallEnded visits
\* exactly Idle, Ringing, InCall, Idle in that order and prints exactly one
\* line per event, in the order ring starts, call answered, call ends,
\* ending at Idle.
C3_AcceptedSequence ==
    \A k \in 0..3 :
        (/\ Processed >= k
         /\ Len(retrieved) >= k
         /\ SubSeq(retrieved, 1, k) = SubSeq(Cycle3, 1, k))
        => /\ SubSeq(visited, 1, k + 1) = SubSeq(CycleStates, 1, k + 1)
           /\ SubSeq(output, 1, k) = SubSeq(CycleOutput, 1, k)
           /\ (Processed = k /\ Len(retrieved) = k) =>
                /\ Len(visited) = k + 1
                /\ Len(output) = k
                /\ DescriptorOf(current_state) = CycleStates[k + 1]
                /\ status = "running"

\* C3 witness: the three events have been processed.
C3_Witness ==
    /\ retrieved = Cycle3
    /\ Processed = 3
    /\ visited = CycleStates
    /\ output = CycleOutput

\* C4: whenever N repetitions of the accepted sequence have been processed
\* and no further event is in processing, the machine is in Idle and has
\* printed exactly 3N lines, for every N the history can count.
C4_CycleProperty ==
    (/\ Len(retrieved) < MaxHist
     /\ pc_c \notin {"do_op", "transition"}
     /\ Processed % 3 = 0)
    => /\ status = "running"
       /\ DescriptorOf(current_state) = IDLE
       /\ Len(output) = 3 * (Processed \div 3)
       /\ Len(output) = Processed

\* C4 witness: two repetitions are complete.
C4_Witness ==
    /\ Len(retrieved) < MaxHist
    /\ Processed = 6
    /\ pc_c = "goto"
    /\ Len(output) = 6

\* C5: delivering CallAnswered to a machine in Idle k times in a row leaves
\* the machine running in Idle and prints nothing, for every k >= 1.
C5_RejectionIdempotent ==
    (/\ Len(retrieved) >= 1
     /\ \A i \in 1..Len(retrieved) : retrieved[i] = CALL_ANSWERED)
    => /\ status = "running"
       /\ DescriptorOf(current_state) = IDLE
       /\ output = <<>>

\* C6: at every point the current state is exactly one of Idle, Ringing,
\* InCall, never null; between the side effect of an event and the
\* installation of the next state it is still the state installed last.
C6_ExactlyOneState ==
    /\ current_state \in StateObjects
    /\ get_descriptor(current_state) \in StateDescriptor
    /\ Len(visited) < MaxHist =>
          get_descriptor(current_state) = visited[Len(visited)]

\* C6 witness: a side effect is out and the next state is not yet installed.
C6_Witness ==
    /\ pc_c = "transition"
    /\ Len(output) = 2
    /\ get_descriptor(current_state) = PHONE_RING

\* C7: while an event is dequeued, dispatched and the next state installed,
\* the consumer holds the mutex: from the return of wait until the next
\* state has been installed; it never holds it while blocked.
C7_MutexHeldWhileProcessing ==
    /\ pc_c \in {"get_event", "do_op", "transition", "goto"} => mutex = "fsm"
    /\ pc_c \in {"blocked", "woken", "lock"} => mutex = "free"

\* C7 witness: the consumer is between the side effect and the installation
\* while the producer is about to notify.
C7_Witness ==
    /\ pc_c = "transition"
    /\ pc_p[2] = "notify"
    /\ mutex = "fsm"

\* C8: the number of events the consumer has retrieved is at most the
\* number of notifications the producer has sent.
C8_ConsumedAtMostNotified == Len(retrieved) <= notifications

\* C9: no delivered event, rejected or malformed, ends the consumer loop: no
\* error escapes it and the process is never killed.
C9_LoopSurvivesAnyEvent == status # "crashed"

\* C10: the k-th retrieved event is IncomingCall, CallAnswered or CallEnded
\* as k mod 3 is 0, 1 or 2 (k from 0): nothing skipped, repeated, reordered.
C10_RetrievedIsCyclic ==
    \A k \in 1..Len(retrieved) : retrieved[k] = Cycle3[((k - 1) % 3) + 1]

\* C10 witness: the cycle has wrapped around and notifications were lost.
C10_Witness ==
    /\ Len(retrieved) = 5
    /\ notifications > Len(retrieved)
    /\ e = CALL_ANSWERED

\* C11: the machine has no terminal state: under fair scheduling it is in
\* Idle, in Ringing and in InCall infinitely often, and from each state it
\* eventually reaches the next state of the cycle Idle, Ringing, InCall, Idle.
C11_CyclesForever ==
    /\ []<>(DescriptorOf(current_state) = IDLE)
    /\ []<>(DescriptorOf(current_state) = PHONE_RING)
    /\ []<>(DescriptorOf(current_state) = IN_CALL)
    /\ (DescriptorOf(current_state) = IDLE)
          ~> (DescriptorOf(current_state) = PHONE_RING)
    /\ (DescriptorOf(current_state) = PHONE_RING)
          ~> (DescriptorOf(current_state) = IN_CALL)
    /\ (DescriptorOf(current_state) = IN_CALL)
          ~> (DescriptorOf(current_state) = IDLE)

\* C11 witness: the machine is in InCall for the second time.
C11_Witness ==
    /\ get_descriptor(current_state) = IN_CALL
    /\ Len(retrieved) = 5
    /\ pc_c = "blocked"

\* C12: no processing step modifies the transition table or the
\* event-to-operation mapping of any state handler: after any do_op(E) and
\* get_next_state(S, E), accepted or not, the 12 entries of the table and the
\* set of events each handler maps are as right after construction.
C12_ReadOnlyAfterConstruction ==
    /\ mapping = TransitionManagerCtor
    /\ DOMAIN handler_map[fsm_idle] = DOMAIN IdleCtor
    /\ DOMAIN handler_map[idle_state] = DOMAIN IdleCtor
    /\ DOMAIN handler_map[phone_ringing_state] = DOMAIN PhoneRingingCtor
    /\ DOMAIN handler_map[in_call_state] = DOMAIN InCallCtor

\* C13: handler acceptance and the transition table are in sync: for every
\* state S and event E, the handler of S has an operation registered for E
\* if and only if the table has a next state for (S, E).
C13_HandlersMatchTable ==
    \A o \in StateObjects : \A ev \in Event :
        (ev \in DOMAIN handler_map[o] /\ handler_map[o][ev] # nullptr)
        <=> (get_next_state(get_descriptor(o), ev) # nullptr)

\* C13 witness: an accepted event has been dispatched to the handler of
\* Ringing and the table is about to be queried with the same pair.
C13_Witness ==
    /\ pc_c = "transition"
    /\ current_state = phone_ringing_state
    /\ e = CALL_ANSWERED
    /\ output = <<"Phone started ringing",
                  "Call answered. Starting conversation">>

\* The side effect the authoritative table gives for a pair.
TableSideEffect(sd, ev) ==
    IF <<sd, ev>> = <<IDLE, INCOMING_CALL>> THEN "Phone started ringing"
    ELSE IF <<sd, ev>> = <<PHONE_RING, CALL_ANSWERED>>
         THEN "Call answered. Starting conversation"
    ELSE IF <<sd, ev>> = <<PHONE_RING, CALL_DECLINED>> THEN "Call declined"
    ELSE IF <<sd, ev>> = <<IN_CALL, CALL_ENDED>> THEN "Call ended"
    ELSE "none"

\* C14: within one processing step the engine invokes the handler of the
\* state that was current before the step and then queries the table with
\* that same state and the same event; the side effect is out before the
\* current state is replaced, and the event is retrieved once per step.
C14_DispatchThenLookup ==
    Len(retrieved) < MaxHist =>
        /\ Len(visited) = Processed + 1
        /\ Len(output) =
              IF pc_c = "transition" THEN Processed + 1 ELSE Processed
        /\ call = Len(retrieved) % 3
        /\ DescriptorOf(current_state) = visited[Len(visited)]
        /\ pc_c \in {"do_op", "transition"} =>
              e = retrieved[Len(retrieved)]
        /\ \A k \in 1..(Len(visited) - 1) :
              visited[k + 1] = TableNext(visited[k], retrieved[k])
        /\ \A k \in 1..Len(output) :
              output[k] = TableSideEffect(visited[k], retrieved[k])

\* C14 witness: in the second cycle, the side effect of CallEnded is out and
\* InCall is still the current state.
C14_Witness ==
    /\ pc_c = "transition"
    /\ Len(retrieved) = 6
    /\ Len(output) = 6
    /\ Len(visited) = 6
    /\ get_descriptor(current_state) = IN_CALL

\* C15: a notification issued while the consumer is not blocked in wait is
\* not remembered: it changes nothing for the consumer, and a wait, once
\* blocked, ends only by a notify_one issued after it began.
C15_WaitEndsOnlyByNotify ==
    [][/\ (pc_p[2] = "notify" /\ pc_p' # pc_p /\ pc_c # "blocked")
            => (pc_c' = pc_c /\ mutex' = mutex)
       /\ (pc_c = "blocked" /\ pc_c' # "blocked")
            => (pc_p[2] = "notify" /\ pc_p' # pc_p)
      ]_vars

\* C16: the producer never blocks on the consumer: whatever the consumer is
\* doing, the producer's next step is enabled, and a notify step neither
\* waits for the consumer nor touches the mutex.
C16_ProducerNeverBlocks ==
    /\ [](status = "running" =>
            /\ pc_p[2] = "notify" => ENABLED Notify
            /\ pc_p[2] = "sleep" => ENABLED Sleep)
    /\ [][pc_p' # pc_p => mutex' = mutex]_vars

\* C16 witness: the producer is about to notify while the consumer holds the
\* mutex in the middle of processing an event.
C16_Witness ==
    /\ pc_p[2] = "notify"
    /\ pc_c = "do_op"
    /\ mutex = "fsm"

\* C17: in the running program, between processing steps the cursor of
\* get_event and the state correspond (0 iff Idle, 1 iff Ringing, 2 iff
\* InCall), so every dispatched pair is one of the four table entries and
\* the unhandled-event and no-transition paths are never reached.
C17_CursorMatchesState ==
    /\ status = "running"
    /\ current_state # nullptr
    /\ pc_c \notin {"do_op", "transition"} =>
          /\ call = 0 <=> get_descriptor(current_state) = IDLE
          /\ call = 1 <=> get_descriptor(current_state) = PHONE_RING
          /\ call = 2 <=> get_descriptor(current_state) = IN_CALL
    /\ pc_c \in {"do_op", "transition"} =>
          /\ <<get_descriptor(current_state), e>> \in TableEntries
          /\ HasHandler(current_state, e)
          /\ get_next_state(get_descriptor(current_state), e) # nullptr

\* C17 witness: CallEnded is about to be dispatched to InCall in the second
\* cycle, the cursor already back at 0.
C17_Witness ==
    /\ pc_c = "do_op"
    /\ e = CALL_ENDED
    /\ current_state = in_call_state
    /\ call = 0
    /\ Len(retrieved) = 6

\* C18: in the running program CallDeclined is never retrieved or
\* dispatched: the transition Ringing -> Idle is never taken, 'Call declined'
\* is never printed, and every step that leaves Ringing goes to InCall.
C18_NeverDeclined ==
    /\ e # CALL_DECLINED
    /\ \A k \in 1..Len(retrieved) : retrieved[k] # CALL_DECLINED
    /\ \A k \in 1..Len(output) : output[k] # "Call declined"
    /\ \A k \in 1..(Len(visited) - 1) :
          visited[k] = PHONE_RING => visited[k + 1] = IN_CALL

\* C18 witness: Ringing has been left twice.
C18_Witness ==
    /\ Len(visited) = 6
    /\ visited[2] = PHONE_RING
    /\ visited[5] = PHONE_RING
    /\ get_descriptor(current_state) = IN_CALL

\* C19: the cursor call of get_event is always 0, 1 or 2, so the exception
\* at the end of get_event is never thrown.
C19_CursorInRange ==
    /\ call \in {0, 1, 2}
    /\ get_event_value(call) # "throw"
    /\ status # "crashed"

\* C19 witness: the cursor has been reset by case 2 and advanced again.
C19_Witness ==
    /\ call = 1
    /\ Len(retrieved) = 4
    /\ pc_c = "get_event"

=============================================================================
